---- MODULE Spec2Model ----
(***************************************************************************)
(* funpy front end: the character-level lexer (src/src/lexer.rs), the      *)
(* token rendering (src/src/token.rs), the precedence-climbing parser      *)
(* (src/src/parser.rs) and the AST rendering (src/src/ast.rs).             *)
(*                                                                         *)
(* A source string is a sequence of characters; a character is a short    *)
(* string.  The two characters outside ASCII are written by code point:   *)
(* "U+00E9" (an alphabetic character, 2 bytes in UTF-8) and "U+0663" (a    *)
(* numeric, non-ASCII digit, 2 bytes in UTF-8).                            *)
(***************************************************************************)
EXTENDS Integers, Sequences, FiniteSets, TLC

VARIABLES
    src,        \* Lexer.src
    rest,       \* Lexer.rest
    byte,       \* Lexer.byte
    item,       \* what the last call of Lexer::next returned
    items,      \* every item returned so far, in order
    spans,      \* per returned token/error: spaces skipped and text consumed
    aborted,    \* the process panicked inside Lexer::next
    tokens,     \* Parser.tokens
    n_tokens,   \* Parser.n_tokens
    l,          \* Parser.l, the trailing cursor
    r,          \* Parser.r, the leading cursor
    result,     \* what Parser::parse(Lowest) returned
    pc          \* "lex" | "new" | "parsed"

vars == <<src, rest, byte, item, items, spans, aborted,
          tokens, n_tokens, l, r, result, pc>>

(***************************************************************************)
(* Bounds of the model.                                                    *)
(***************************************************************************)
MaxSrcLen == 3
MaxNoneCalls == 2
MaxTokens == 3
MaxOperators == 3
MaxParens == 1

(***************************************************************************)
(* Characters.                                                             *)
(***************************************************************************)
AsciiDigits == <<"0", "1", "2", "3", "4", "5", "6", "7", "8", "9">>

IsAsciiDigit(c) == \E i \in 1..10 : AsciiDigits[i] = c

DigitVal(c) == (CHOOSE i \in 1..10 : AsciiDigits[i] = c) - 1

\* char::len_utf8
len_utf8(c) == IF c \in {"U+00E9", "U+0663"} THEN 2 ELSE 1

\* char::is_numeric
is_numeric(c) == IsAsciiDigit(c) \/ c = "U+0663"

\* char::is_alphabetic
is_alphabetic(c) == c \in {"a", "b", "c", "x", "U+00E9"}

\* char::is_alphanumeric
is_alphanumeric(c) == is_alphabetic(c) \/ is_numeric(c)

(***************************************************************************)
(* &str: length in bytes, slicing by byte index, find.                     *)
(***************************************************************************)
RECURSIVE ByteLen(_)
ByteLen(s) == IF s = <<>> THEN 0 ELSE len_utf8(Head(s)) + ByteLen(Tail(s))

\* The number of characters that make up the first n bytes of s, or -1
\* when n is no character boundary of s (Rust panics on such a slice).
CharIx(s, n) ==
    IF \E k \in 0..Len(s) : ByteLen(SubSeq(s, 1, k)) = n
    THEN CHOOSE k \in 0..Len(s) : ByteLen(SubSeq(s, 1, k)) = n
    ELSE -1

SliceOk(s, n) == CharIx(s, n) >= 0
\* &s[..n]
SliceTo(s, n) == SubSeq(s, 1, CharIx(s, n))
\* &s[n..]
SliceFrom(s, n) == IF SliceOk(s, n) THEN SubSeq(s, CharIx(s, n) + 1, Len(s)) ELSE <<>>

\* str::find(pred): the byte index of the first character satisfying the
\* predicate, or -1 for None; hits is the set of positions of s whose
\* character satisfies it.
find(s, hits) ==
    IF hits # {}
    THEN LET i == CHOOSE i \in hits : \A j \in hits : i <= j
         IN  ByteLen(SubSeq(s, 1, i - 1))
    ELSE -1

unwrap_or_else(ix, dflt) == IF ix = -1 THEN dflt ELSE ix

(***************************************************************************)
(* Tokens (token.rs) and the items of the lexer's sequence (lexer.rs).     *)
(***************************************************************************)
\* enum Token: a variant name, the i32 of IntLiteral, the slice of
\* StrLiteral / Ident.
Token(type, n, s) == [type |-> type, n |-> n, s |-> s]
IntLiteral(n) == Token("IntLiteral", n, <<>>)
StrLiteral(s) == Token("StrLiteral", 0, s)
Ident(s) == Token("Ident", 0, s)
Plain(type) == Token(type, 0, <<>>)

\* Option<Result<SpannedToken, LexErr>>
NotCalled == [tag |-> "NotCalled", at |-> 0, tok |-> Plain("-"), err |-> "-"]
None == [tag |-> "None", at |-> 0, tok |-> Plain("-"), err |-> "-"]
SomeOk(at, tok) == [tag |-> "Ok", at |-> at, tok |-> tok, err |-> "-"]
\* LexErr::UnknownToken(at, None)
UnknownToken(at) == [tag |-> "Err", at |-> at, tok |-> Plain("-"), err |-> "UnknownToken"]
\* LexErr::UnterminatedString(at)
UnterminatedString(at) ==
    [tag |-> "Err", at |-> at, tok |-> Plain("-"), err |-> "UnterminatedString"]

MaxI32 == 2147483647

\* str::parse::<i32> on a span that starts with an ASCII digit: every
\* character must be an ASCII digit (InvalidDigit otherwise) and the value
\* is accumulated with checked_mul / checked_add (PosOverflow otherwise).
RECURSIVE ParseDigits(_, _)
ParseDigits(s, acc) ==
    IF s = <<>> THEN [ok |-> TRUE, val |-> acc]
    ELSE IF ~IsAsciiDigit(Head(s)) THEN [ok |-> FALSE, val |-> 0]
    ELSE IF acc > (MaxI32 - DigitVal(Head(s))) \div 10 THEN [ok |-> FALSE, val |-> 0]
    ELSE ParseDigits(Tail(s), acc * 10 + DigitVal(Head(s)))

parse_i32(s) == IF s = <<>> THEN [ok |-> FALSE, val |-> 0] ELSE ParseDigits(s, 0)

\* Display of a non-negative i32: its decimal digits.
RECURSIVE Decimal(_)
Decimal(n) ==
    IF n < 10 THEN <<AsciiDigits[n + 1]>>
    ELSE Decimal(n \div 10) \o <<AsciiDigits[(n % 10) + 1]>>

\* impl Display for Token, for the variants the lexer emits.
fmt(tok) ==
    CASE tok.type = "IntLiteral" -> Decimal(tok.n)
      [] tok.type = "StrLiteral" -> tok.s
      [] tok.type = "Ident" -> tok.s
      [] tok.type = "LParen" -> <<"(">>
      [] tok.type = "RParen" -> <<")">>
      [] tok.type = "Add" -> <<"+">>
      [] tok.type = "Sub" -> <<"-">>
      [] tok.type = "Mul" -> <<"*">>
      [] tok.type = "Div" -> <<"/">>
      [] tok.type = "AddEq" -> <<"+", "=">>
      [] tok.type = "SubEq" -> <<"-", "=">>
      [] tok.type = "MulEq" -> <<"*", "=">>
      [] tok.type = "DivEq" -> <<"/", "=">>
      [] tok.type = "Bang" -> <<"!">>
      [] tok.type = "BangEq" -> <<"!", "=">>
      [] OTHER -> <<>>

(***************************************************************************)
(* Lexer::next.  A lexer value is [src, rest, byte]; the outcome of a call *)
(* is the lexer after it, the item returned, whether the call panicked,    *)
(* and (for the record of what was consumed) the number of spaces skipped  *)
(* and the text of the consumed span.                                      *)
(***************************************************************************)
Outcome(lx, it, skipped, text, panic) ==
    [lx |-> lx, item |-> it, skipped |-> skipped, text |-> text, panic |-> panic]

\* SkipSpaces with `self.byte += c.len_utf8()` left out of the loop.
RECURSIVE SkipSpaces_byte_not_advanced(_, _, _)
SkipSpaces_byte_not_advanced(lx, chars, n) ==
    IF chars # <<>> /\ Head(chars) = " "
    THEN SkipSpaces_byte_not_advanced([lx EXCEPT !.rest = SliceFrom(@, len_utf8(" "))],
                                      Tail(chars), n + 1)
    ELSE [lx |-> lx, chars |-> chars, n |-> n]

\* lines 67-72: skip U+0020, advancing byte and rest one character at a
\* time; chars is the iterator the loop reads from.
RECURSIVE SkipSpaces(_, _, _)
SkipSpaces(lx, chars, n) ==
    IF chars # <<>> /\ Head(chars) = " "
    THEN SkipSpaces([lx EXCEPT !.byte = @ + len_utf8(" "),
                               !.rest = SliceFrom(@, len_utf8(" "))],
                    Tail(chars), n + 1)
    ELSE [lx |-> lx, chars |-> chars, n |-> n]

\* lines 82-86: Started::IfEqualElse(no, yes)
IfEqualElse(c) ==
    CASE c = "+" -> <<"Add", "AddEq">>
      [] c = "-" -> <<"Sub", "SubEq">>
      [] c = "*" -> <<"Mul", "MulEq">>
      [] c = "/" -> <<"Div", "DivEq">>
      [] c = "!" -> <<"Bang", "BangEq">>

\* The positions of s whose character satisfies the closure given to find.
NotNumericChar(s) == {i \in 1..Len(s) : ~(is_numeric(s[i]) \/ s[i] = "_")}
NotIdentChar(s) == {i \in 1..Len(s) : ~(s[i] = "_" \/ is_alphanumeric(s[i]))}
IsQuote(s) == {i \in 1..Len(s) : s[i] = "\""}

\* lines 96-110: Started::Numeric
Numeric(lx, c, c_at, c_rest, skipped) ==
    LET numeric_end_ix == unwrap_or_else(find(c_rest, NotNumericChar(c_rest)), ByteLen(c_rest))
        numeric_token == SliceTo(c_rest, numeric_end_ix)
        n_bytes == ByteLen(numeric_token) - len_utf8(c)
        lx2 == [lx EXCEPT !.byte = @ + n_bytes, !.rest = SliceFrom(@, n_bytes)]
        n == parse_i32(numeric_token)
        panic == ~SliceOk(c_rest, numeric_end_ix) \/ n_bytes < 0
                 \/ ~SliceOk(lx.rest, n_bytes) \/ ~n.ok
    IN  Outcome(lx2, SomeOk(c_at, IntLiteral(n.val)), skipped, numeric_token, panic)

\* lines 111-123: Started::Ident
StartedIdent(lx, c, c_at, c_rest, skipped) ==
    LET ident_ed_ix == unwrap_or_else(find(c_rest, NotIdentChar(c_rest)), ByteLen(c_rest))
        ident == SliceTo(c_rest, ident_ed_ix)
        n_bytes == ByteLen(ident) - len_utf8(c)
        lx2 == [lx EXCEPT !.byte = @ + n_bytes, !.rest = SliceFrom(@, n_bytes)]
        panic == ~SliceOk(c_rest, ident_ed_ix) \/ n_bytes < 0 \/ ~SliceOk(lx.rest, n_bytes)
    IN  Outcome(lx2, SomeOk(c_at, Ident(ident)), skipped, ident, panic)

\* Started::String that, on an unterminated string, consumes the input to
\* its end (so that the lexer stops after the error).
StartedString_swallows_rest(lx, c, c_at, c_rest, skipped) ==
    LET str_end_ix == find(SliceFrom(c_rest, 1), IsQuote(SliceFrom(c_rest, 1)))
        full_str == SliceTo(c_rest, str_end_ix + 2)
        n_bytes == ByteLen(full_str) - len_utf8(c)
        lx2 == [lx EXCEPT !.byte = @ + n_bytes, !.rest = SliceFrom(@, n_bytes)]
        inner == SliceTo(SliceFrom(full_str, 1), ByteLen(full_str) - 2)
    IN  IF str_end_ix # -1
        THEN Outcome(lx2, SomeOk(c_at, StrLiteral(inner)), skipped, full_str, FALSE)
        ELSE Outcome([lx EXCEPT !.byte = @ + ByteLen(lx.rest), !.rest = <<>>],
                     UnterminatedString(c_at), skipped, c_rest, FALSE)

\* lines 124-139: Started::String
StartedString(lx, c, c_at, c_rest, skipped) ==
    LET str_end_ix == find(SliceFrom(c_rest, 1), IsQuote(SliceFrom(c_rest, 1)))
        full_str == SliceTo(c_rest, str_end_ix + 2)
        n_bytes == ByteLen(full_str) - len_utf8(c)
        lx2 == [lx EXCEPT !.byte = @ + n_bytes, !.rest = SliceFrom(@, n_bytes)]
        inner == SliceTo(SliceFrom(full_str, 1), ByteLen(full_str) - 2)
        panic == ~SliceOk(c_rest, 1) \/ ~SliceOk(c_rest, str_end_ix + 2) \/ n_bytes < 0
                 \/ ~SliceOk(lx.rest, n_bytes)
    IN  IF str_end_ix # -1
        THEN Outcome(lx2, SomeOk(c_at, StrLiteral(inner)), skipped, full_str, panic)
        ELSE Outcome(lx, UnterminatedString(c_at), skipped, <<c>>, ~SliceOk(c_rest, 1))

\* lines 140-149: Started::IfEqualElse
StartedIfEqualElse(lx, c, c_at, skipped) ==
    IF lx.rest # <<>> /\ Head(lx.rest) = "="
    THEN Outcome([lx EXCEPT !.byte = @ + len_utf8("="), !.rest = SliceFrom(@, 1)],
                 SomeOk(c_at, Plain(IfEqualElse(c)[2])), skipped, <<c, "=">>, FALSE)
    ELSE Outcome(lx, SomeOk(c_at, Plain(IfEqualElse(c)[1])), skipped, <<c>>, FALSE)

\* Consume counting characters instead of bytes.
Consume_counts_chars(lx, c, chars) == [lx EXCEPT !.byte = @ + 1, !.rest = chars]

\* lines 73-76: the character that starts the token is consumed.
Consume(lx, c, chars) == [lx EXCEPT !.byte = @ + len_utf8(c), !.rest = chars]

\* lines 61-152: Lexer::next
next(lx0) ==
    IF lx0.rest = <<>> THEN Outcome(lx0, None, 0, <<>>, FALSE)
    ELSE
    LET sk == SkipSpaces(lx0, lx0.rest, 0)
    IN  IF sk.chars = <<>> THEN Outcome(sk.lx, None, sk.n, <<>>, FALSE)
        ELSE
        LET c == Head(sk.chars)
            c_at == sk.lx.byte
            c_rest == sk.lx.rest
            lx == Consume(sk.lx, c, Tail(sk.chars))
        IN  CASE c = "(" -> Outcome(lx, SomeOk(c_at, Plain("LParen")), sk.n, <<c>>, FALSE)
              [] c = ")" -> Outcome(lx, SomeOk(c_at, Plain("RParen")), sk.n, <<c>>, FALSE)
              [] c \in {"+", "-", "*", "/", "!"} -> StartedIfEqualElse(lx, c, c_at, sk.n)
              [] c = "\"" -> StartedString(lx, c, c_at, c_rest, sk.n)
              [] IsAsciiDigit(c) -> Numeric(lx, c, c_at, c_rest, sk.n)
              [] is_alphabetic(c) -> StartedIdent(lx, c, c_at, c_rest, sk.n)
              [] OTHER -> Outcome(lx, UnknownToken(c_at), sk.n, <<c>>, FALSE)

(***************************************************************************)
(* AST nodes (ast.rs).  Characters of a rendering are kept as a sequence;  *)
(* Str turns a sequence of characters into a string.                       *)
(***************************************************************************)
NoNode == [node |-> "None"]
IsNone(nd) == nd.node = "None"

RECURSIVE Str(_)
Str(s) == IF s = <<>> THEN "" ELSE Head(s) \o Str(Tail(s))

\* The parser's Token: a TokenType and the literal text it was lexed from.
Tok(ttype, literal) == [ttype |-> ttype, literal |-> literal]

\* Result<Box<dyn Node>, ParseError>, with the parser as the call left it;
\* tag "Panic" is a call that panicked instead of returning.
Ok(nd, P) == [tag |-> "Ok", node |-> nd, err |-> "-", p |-> P]
Err(e, P) == [tag |-> "Err", node |-> NoNode, err |-> e, p |-> P]
Panic(P) == [tag |-> "Panic", node |-> NoNode, err |-> "-", p |-> P]

\* IntegerNode::new (ast.rs lines 28-41)
IntegerNode_new(token, P) ==
    IF token.ttype = "Int"
    THEN LET i == parse_i32(token.literal)
         IN  IF i.ok THEN Ok([node |-> "IntegerNode", value |-> i.val], P)
             ELSE Err("InvalidTypeData", P)
    ELSE Err("InvalidTypeData", P)

\* Identifier::new (ast.rs lines 94-98)
Identifier_new(token) == [node |-> "Identifier", literal |-> token.literal]

\* BinaryExpr::new (ast.rs lines 59-67)
BinaryExpr_new(op_token, lhs, rhs) ==
    [node |-> "BinaryExpr", op |-> op_token.ttype, l |-> lhs, r |-> rhs]

\* AssignmentStmt::new (ast.rs lines 198-205)
AssignmentStmt_new(identifier, expression) ==
    [node |-> "AssignmentStmt", identifier |-> identifier, expr |-> expression]

\* The operator token's Display, as BinaryExpr::repr formats it.
OpText(ttype) ==
    CASE ttype = "Add" -> <<"+">>
      [] ttype = "Sub" -> <<"-">>
      [] ttype = "Mul" -> <<"*">>
      [] ttype = "Div" -> <<"/">>

\* Node::repr for IntegerNode, Identifier, BinaryExpr and AssignmentStmt.
RECURSIVE repr(_)
repr(nd) ==
    CASE nd.node = "IntegerNode" -> Decimal(nd.value)
      [] nd.node = "Identifier" -> nd.literal
      [] nd.node = "BinaryExpr" ->
            <<"(">> \o repr(nd.l) \o <<" ">> \o OpText(nd.op) \o <<" ">> \o repr(nd.r)
            \o <<")">>
      [] nd.node = "AssignmentStmt" ->
            repr(nd.identifier) \o <<" ", "=", " ">> \o repr(nd.expr)
      [] OTHER -> <<>>

(***************************************************************************)
(* Parser (parser.rs).  A parser value is [tokens, n_tokens, l, r]; the    *)
(* cursors are 0-based as in the source, the sequence tokens is 1-based.   *)
(***************************************************************************)
\* enum Precedence, in its derived order.
Lowest == 0
AddSub == 1
MulDiv == 2
EqNotEq == 3

\* Parser::new
Parser_new(toks) == [tokens |-> toks, n_tokens |-> Len(toks), l |-> 0, r |-> 0]

\* step that leaves the trailing cursor where it was.
step_keeps_trailing(P) == [P EXCEPT !.r = P.r + 1]

\* Parser::step
step(P) == [P EXCEPT !.r = P.r + 1, !.l = P.r + 1]

\* Parser::incr_leading
incr_leading(P) ==
    IF P.r = P.n_tokens THEN [ok |-> FALSE, p |-> P]
    ELSE [ok |-> TRUE, p |-> [P EXCEPT !.r = @ + 1]]

\* Parser::incr_trailing
incr_trailing(P) == [P EXCEPT !.l = @ + 1]

\* get_precedence with the two levels exchanged.
get_precedence_swapped(token_type) ==
    CASE token_type \in {"Add", "Sub"} -> MulDiv
      [] token_type \in {"Mul", "Div"} -> AddSub
      [] OTHER -> Lowest

\* Parser::get_precedence
get_precedence(token_type) ==
    CASE token_type \in {"Add", "Sub"} -> AddSub
      [] token_type \in {"Mul", "Div"} -> MulDiv
      [] OTHER -> Lowest

\* Parser::get_binary_node
get_binary_node(op_token, lhs, rhs) == BinaryExpr_new(op_token, lhs, rhs)

\* lines 125-129 of get_operand_node: the trailing cursor skips LParens.
RECURSIVE SkipLParens(_)
SkipLParens(P) ==
    IF P.l < P.n_tokens /\ P.tokens[P.l + 1].ttype = "LParen"
    THEN SkipLParens(incr_trailing(P))
    ELSE P

\* Parser::get_operand_node; tokens[self.l] panics when l is out of bounds.
get_operand_node(P0) ==
    LET P == SkipLParens(P0)
    IN  IF P.l >= P.n_tokens THEN Panic(P)
        ELSE LET tok == P.tokens[P.l + 1]
             IN  CASE tok.ttype = "Int" -> IntegerNode_new(tok, P)
                   [] tok.ttype = "Identifier" -> Ok(Identifier_new(tok), P)
                   [] OTHER -> Err("InvalidTypeData", P)

\* `if node.is_none() { node = Some(self.get_operand_node()?) }`
EnsureOperand(nd, P) == IF IsNone(nd) THEN get_operand_node(P) ELSE Ok(nd, P)

\* Parser::parse: ParseLoop is the state of the while loop (the parser, the
\* node built so far, the precedence of the call).
RECURSIVE ParseLoop(_, _, _)
ParseLoop(P, nd, precedence) ==
    IF P.r < P.n_tokens
    THEN LET tok == P.tokens[P.r + 1]
         IN  CASE tok.ttype \in {"Add", "Sub", "Mul", "Div"} ->
                    LET new_precedence == get_precedence(tok.ttype)
                        lhs == EnsureOperand(nd, P)
                    IN  IF new_precedence < precedence THEN lhs
                        ELSE IF lhs.tag # "Ok" THEN lhs
                        ELSE LET rhs == ParseLoop(step(lhs.p), NoNode, new_precedence)
                             IN  IF rhs.tag # "Ok" THEN rhs
                                 ELSE ParseLoop(rhs.p,
                                                get_binary_node(tok, lhs.node, rhs.node),
                                                precedence)
               [] tok.ttype = "LParen" ->
                    LET il == incr_leading(P)
                    IN  IF ~il.ok THEN Err("ReachedEnd", il.p)
                        ELSE LET sub == ParseLoop(il.p, NoNode, Lowest)
                             IN  IF sub.tag # "Ok" THEN sub
                                 ELSE ParseLoop(sub.p, sub.node, precedence)
               [] tok.ttype = "RParen" ->
                    LET opnd == EnsureOperand(nd, P)
                    IN  IF opnd.tag # "Ok" THEN opnd
                        ELSE LET il == incr_leading(opnd.p)
                             IN  IF ~il.ok THEN Err("ReachedEnd", il.p)
                                 ELSE Ok(opnd.node, il.p)
               [] tok.ttype = "Assignment" ->
                    LET identifier == Identifier_new(P.tokens[P.l + 1])
                        expr == ParseLoop(step(P), NoNode, Lowest)
                    IN  IF expr.tag # "Ok" THEN expr
                        ELSE Ok(AssignmentStmt_new(identifier, expr.node), expr.p)
               [] OTHER ->
                    LET il == incr_leading(P)
                    IN  IF ~il.ok THEN Err("ReachedEnd", il.p)
                        ELSE ParseLoop(il.p, nd, precedence)
    ELSE EnsureOperand(nd, P)

parse(P, precedence) == ParseLoop(P, NoNode, precedence)

(***************************************************************************)
(* The lexer as a state machine: one action per call of Lexer::next.       *)
(***************************************************************************)
Alphabet ==
    {" ", "(", ")", "+", "!", "=", "\"", "0", "1", "_", "a", "U+00E9", "U+0663", "@"}

Nines(n) == [i \in 1..n |-> "9"]

ExampleSources ==
    { <<"1", "_", "0", "0", "0">>,
      Nines(11),
      <<"2", "1", "4", "7", "4", "8", "3", "6", "4", "7">>,
      <<"2", "1", "4", "7", "4", "8", "3", "6", "4", "8">>,
      <<"\"", "a", "b", "c">>,
      <<"x", " ", "-", "=", " ", "\"", "a", " ", "b", "\"", " ", "*", "(", "b", "/", "2", ")">>,
      <<"1", " ", "-", " ", "2", " ", "*", "=", " ", "3", " ", "/", "=", " ", "@", " ", "4",
        " ", "\"", "a">>,
      <<" ", " ", "U+00E9", "_", "1", " ", " ", "\"", "U+00E9", "\"", "+", "=", "5", " ">> }

Sources == UNION {[1..n -> Alphabet] : n \in 0..MaxSrcLen} \cup ExampleSources


NoResult == [tag |-> "NoResult", node |-> NoNode, err |-> "-"]

ParserIdle ==
    /\ tokens = <<>>
    /\ n_tokens = 0
    /\ l = 0
    /\ r = 0
    /\ result = NoResult

\* Lexer::new (lines 49-55)
LexerInit ==
    /\ src \in Sources
    /\ rest = src
    /\ byte = 0
    /\ item = NotCalled
    /\ items = <<>>
    /\ spans = <<>>
    /\ aborted = FALSE
    /\ pc = "lex"
    /\ ParserIdle

NoneCount(its) == Cardinality({i \in 1..Len(its) : its[i].tag = "None"})

\* One call of Lexer::next.  A panic ends the process: nothing is returned.
LexerNext ==
    /\ pc = "lex"
    /\ ~aborted
    /\ NoneCount(items) < MaxNoneCalls
    /\ LET out == next([src |-> src, rest |-> rest, byte |-> byte])
       IN  IF out.panic
           THEN /\ aborted' = TRUE
                /\ UNCHANGED <<src, rest, byte, item, items, spans>>
           ELSE /\ aborted' = FALSE
                /\ src' = out.lx.src
                /\ rest' = out.lx.rest
                /\ byte' = out.lx.byte
                /\ item' = out.item
                /\ items' = Append(items, out.item)
                /\ spans' = Append(spans, [skipped |-> out.skipped, text |-> out.text])
    /\ UNCHANGED <<tokens, n_tokens, l, r, result, pc>>

LexerSpec == LexerInit /\ [][LexerNext]_vars

(***************************************************************************)
(* Properties of the lexer.                                                *)
(***************************************************************************)
Spaces(n) == [i \in 1..n |-> " "]

\* What call i consumed: the spaces it skipped, then the span of its item.
Piece(i) == Spaces(spans[i].skipped) \o spans[i].text

RECURSIVE Consumed(_)
Consumed(k) == IF k = 0 THEN <<>> ELSE Consumed(k - 1) \o Piece(k)

HasErr(its) == \E i \in 1..Len(its) : its[i].tag = "Err"

RECURSIVE DropSpaces(_)
DropSpaces(s) == IF s # <<>> /\ Head(s) = " " THEN DropSpaces(Tail(s)) ELSE s

\* The byte offset in the source of the first character of suffix s.
OffsetOf(s) == ByteLen(SubSeq(src, 1, Len(src) - Len(s)))

IsSuffixOfSrc(s) == Len(s) <= Len(src) /\ SubSeq(src, Len(src) - Len(s) + 1, Len(src)) = s

\* C6: while no call has returned an error, byte = len(src) - len(rest)
\* after every call; every token's offset is the byte offset of the first
\* character of its span; the next token's offset is the previous offset
\* plus the previous span's length plus the spaces skipped in between; the
\* skipped spaces and consumed spans, in order, followed by what is left,
\* are the source, and are the whole source once None is returned.
C6_Partition ==
    ~HasErr(items) =>
        /\ byte = ByteLen(src) - ByteLen(rest)
        /\ Len(spans) = Len(items)
        /\ Consumed(Len(spans)) \o rest = src
        /\ item.tag = "None" => Consumed(Len(spans)) = src
        /\ \A i \in 1..Len(items) :
              items[i].tag = "Ok" =>
                 /\ spans[i].text # <<>>
                 /\ items[i].at = ByteLen(Consumed(i - 1)) + spans[i].skipped
                 /\ i > 1 =>
                      items[i].at = items[i - 1].at + ByteLen(spans[i - 1].text)
                                    + spans[i].skipped

\* C6 witness: a source with skipped spaces and a multi-byte character is
\* lexed to its end, with several tokens and without error.
C6_Witness ==
    /\ item.tag = "None"
    /\ ~HasErr(items)
    /\ Len(items) >= 4
    /\ \E i \in 1..Len(spans) : spans[i].skipped > 0 /\ items[i].tag = "Ok"
    /\ \E i \in 1..Len(spans) : ByteLen(spans[i].text) > Len(spans[i].text)

Called == aborted \/ items # <<>>

RECURSIVE StripUnderscores(_)
StripUnderscores(s) ==
    IF s = <<>> THEN <<>>
    ELSE IF Head(s) = "_" THEN StripUnderscores(Tail(s))
    ELSE <<Head(s)>> \o StripUnderscores(Tail(s))

RECURSIVE StripLeadingZeros(_)
StripLeadingZeros(s) ==
    IF Len(s) > 1 /\ Head(s) = "0" THEN StripLeadingZeros(Tail(s)) ELSE s

\* Decimal digits separated by single underscores, first character a digit.
IsSeparatedLiteral(s) ==
    /\ s # <<>>
    /\ \A i \in 1..Len(s) : IsAsciiDigit(s[i]) \/ s[i] = "_"
    /\ IsAsciiDigit(s[1]) /\ IsAsciiDigit(s[Len(s)])
    /\ \A i \in 1..(Len(s) - 1) : ~(s[i] = "_" /\ s[i + 1] = "_")

\* C7: a source that is one integer literal (digits optionally separated
\* by underscores) whose value fits an i32 is lexed to IntLiteral(n), n the
\* value of the digits without the underscores, and the token renders as
\* the decimal text of n.
C7_IntLiteralRoundTrip ==
    (Called /\ IsSeparatedLiteral(src) /\ parse_i32(StripUnderscores(src)).ok) =>
        /\ ~aborted
        /\ items[1] = SomeOk(0, IntLiteral(parse_i32(StripUnderscores(src)).val))
        /\ fmt(items[1].tok) = StripLeadingZeros(StripUnderscores(src))

\* The run of digits/underscores that Started::Numeric would scan at s.
RECURSIVE NumericRun(_)
NumericRun(s) ==
    IF s # <<>> /\ (is_numeric(Head(s)) \/ Head(s) = "_")
    THEN <<Head(s)>> \o NumericRun(Tail(s))
    ELSE <<>>

\* C8: a call of Lexer::next that meets a digit-started run which is not
\* an i32 (overflow, or malformed) returns Some(Err(_)) and does not panic.
C8_NumericNeverAborts ==
    [][ LET s == DropSpaces(rest)
        IN  (s # <<>> /\ IsAsciiDigit(Head(s)) /\ ~parse_i32(NumericRun(s)).ok)
                => (~aborted' /\ item'.tag = "Err") ]_vars

CannotStart(c) ==
    /\ c \notin {" ", "(", ")", "+", "-", "*", "/", "!", "\""}
    /\ ~IsAsciiDigit(c)
    /\ ~is_alphabetic(c)

\* C9: when the next non-space character cannot start a token the call
\* returns UnknownToken(o, None), and when it is a quote with no later
\* quote the call returns UnterminatedString(o), o the byte offset of that
\* character in the source.
C9_ErrorOffsets ==
    [][ LET s == DropSpaces(rest)
        IN  /\ (s # <<>> /\ CannotStart(Head(s)))
                 => (~aborted' /\ item' = UnknownToken(OffsetOf(s)))
            /\ (s # <<>> /\ Head(s) = "\"" /\ \A i \in 2..Len(s) : s[i] # "\"")
                 => (~aborted' /\ item' = UnterminatedString(OffsetOf(s))) ]_vars

\* C9 witness: after a token and a skipped space, an unknown character and
\* later an unclosed quote were reported, both at offsets > 0.
C9_Witness ==
    /\ Len(items) >= 3
    /\ items[1].tag = "Ok"
    /\ \E i \in 1..Len(items) :
          items[i].tag = "Err" /\ items[i].err = "UnknownToken" /\ items[i].at > 0
          /\ spans[i].skipped > 0
    /\ \E i \in 1..Len(items) :
          items[i].tag = "Err" /\ items[i].err = "UnterminatedString" /\ items[i].at > 0

TokenTypes ==
    {"Int", "Identifier", "Add", "Sub", "Mul", "Div", "LParen", "RParen",
     "Assignment", "Colon"}

ArithOps == {"Add", "Sub", "Mul", "Div"}

IsOperandType(tt) == tt \in {"Int", "Identifier"}

\* The number of operand tokens among the first i types of ts.
OperandsUpTo(ts, i) == Cardinality({j \in 1..i : IsOperandType(ts[j])})

\* The token vector with types ts: the k-th operand token is the integer
\* literal k, or the identifier x<k>; other tokens carry their own text.
Materialise(ts) ==
    [i \in 1..Len(ts) |->
        CASE ts[i] = "Int" -> Tok("Int", Decimal(OperandsUpTo(ts, i)))
          [] ts[i] = "Identifier" ->
                Tok("Identifier", <<"x">> \o Decimal(OperandsUpTo(ts, i)))
          [] OTHER -> Tok(ts[i], <<>>)]

\* Well-formed arithmetic expressions (as sequences of token types) with
\* exactly k binary operators and p pairs of parentheses:
\*   Expr ::= Term | Expr op Term       Term ::= Int | ( Expr )
\* The sets are tabulated for p = 0, 1, ... and, for each p, k = 0, 1, ...:
\* tbl[<<k, p>>] is [expr, term], and every entry uses earlier ones only.
TermTypes(tbl, k, p) ==
    (IF k = 0 /\ p = 0 THEN {<<"Int">>} ELSE {})
    \cup (IF p >= 1
          THEN {<<"LParen">> \o e \o <<"RParen">> : e \in tbl[<<k, p - 1>>].expr}
          ELSE {})

ExprTypes(tbl, k, p) ==
    TermTypes(tbl, k, p)
    \cup UNION { UNION { {e \o <<op>> \o t :
                            e \in tbl[<<k1, p1>>].expr, op \in ArithOps,
                            t \in tbl[<<k - 1 - k1, p - p1>>].term} :
                         p1 \in 0..p } :
                 k1 \in 0..(k - 1) }

\* Every entry but the last one, <<MaxOperators, MaxParens>>, whose
\* expressions are only ever composed from the entries before it.
RECURSIVE ExprTable(_, _)
ExprTable(i, tbl) ==
    IF i >= (MaxOperators + 1) * (MaxParens + 1) - 1 THEN tbl
    ELSE LET k == i % (MaxOperators + 1)
             p == i \div (MaxOperators + 1)
         IN  ExprTable(i + 1,
                       tbl @@ (<<k, p>> :> [expr |-> ExprTypes(tbl, k, p),
                                            term |-> TermTypes(tbl, k, p)]))

WellFormedTable == ExprTable(0, <<>>)

\* toks is pre followed by a well-formed expression of at most MaxOperators
\* operators and MaxParens pairs of parentheses.
IsGeneratedExpr(toks, pre) ==
    \E k \in 0..MaxOperators, p \in 0..MaxParens :
        \/ \E t \in TermTypes(WellFormedTable, k, p) : toks = Materialise(pre \o t)
        \/ \E k1 \in 0..(k - 1), p1 \in 0..p :
              \E e \in WellFormedTable[<<k1, p1>>].expr, op \in ArithOps,
                 t \in WellFormedTable[<<k - 1 - k1, p - p1>>].term :
                    toks = Materialise(pre \o e \o <<op>> \o t)

\* The token vectors of the spec's examples, with their own literals.
IntTok(n) == Tok("Int", Decimal(n))
Op(tt) == Tok(tt, <<>>)
ExampleTokens ==
    { <<IntTok(1), Op("Sub"), IntTok(2), Op("Sub"), IntTok(3)>>,
      <<IntTok(1), Op("Add"), IntTok(2), Op("Mul"), IntTok(3)>>,
      <<IntTok(2), Op("Mul"), IntTok(3), Op("Add"), IntTok(4)>>,
      <<Op("LParen"), IntTok(1), Op("Add"), IntTok(2), Op("RParen"), Op("Mul"), IntTok(3)>>,
      <<IntTok(2), Op("Mul"), Op("LParen"), IntTok(1), Op("Add"), IntTok(2), Op("RParen"),
        Op("Add"), IntTok(3)>>,
      <<Tok("Identifier", <<"x">>), Op("Assignment"), IntTok(1), Op("Add"), IntTok(2)>>,
      <<IntTok(1), Op("Add")>>,
      <<IntTok(1), Op("Add"), Tok("Int", Nines(11))>> }

LexerIdle ==
    /\ src = <<>>
    /\ rest = <<>>
    /\ byte = 0
    /\ item = NotCalled
    /\ items = <<>>
    /\ spans = <<>>
    /\ aborted = FALSE

\* Parser::new (lines 30-37)
ParserInit ==
    /\ \/ \E n \in 0..MaxTokens : \E ts \in [1..n -> TokenTypes] :
              tokens = Materialise(ts)
       \/ IsGeneratedExpr(tokens, <<>>)
       \/ IsGeneratedExpr(tokens, <<"Identifier", "Assignment">>)
       \/ tokens \in ExampleTokens
    /\ n_tokens = Len(tokens)
    /\ l = 0
    /\ r = 0
    /\ result = NoResult
    /\ pc = "new"
    /\ LexerIdle

\* parse(Precedence::Lowest) on the new parser.
Parse ==
    /\ pc = "new"
    /\ LET res == parse([tokens |-> tokens, n_tokens |-> n_tokens, l |-> l, r |-> r],
                        Lowest)
       IN  /\ result' = [tag |-> res.tag, node |-> res.node, err |-> res.err]
           /\ l' = res.p.l
           /\ r' = res.p.r
    /\ pc' = "parsed"
    /\ UNCHANGED <<tokens, n_tokens, src, rest, byte, item, items, spans, aborted>>

ParserSpec == ParserInit /\ [][Parse]_vars

\* The result of parsing the token vector toks on its own.
ParseOf(toks) == parse(Parser_new(toks), Lowest)

(***************************************************************************)
(* Properties of the parser.                                               *)
(***************************************************************************)
TypesOf(toks) == [i \in 1..Len(toks) |-> toks[i].ttype]

Parsed == pc = "parsed"

\* The leaf node an operand token denotes.
OperandNode(tok) ==
    IF tok.ttype = "Int" THEN [node |-> "IntegerNode", value |-> parse_i32(tok.literal).val]
    ELSE [node |-> "Identifier", literal |-> tok.literal]

\* An identifier token, or an integer token whose text is an i32.
IsOperandTok(tok) ==
    \/ tok.ttype = "Identifier"
    \/ tok.ttype = "Int" /\ parse_i32(tok.literal).ok

\* operand (op operand)* without parentheses
IsParenFree(toks) ==
    /\ Len(toks) % 2 = 1
    /\ \A i \in 1..Len(toks) :
          IF i % 2 = 1 THEN IsOperandTok(toks[i]) ELSE toks[i].ttype \in ArithOps

OpTypes(toks) == {toks[i].ttype : i \in {j \in 1..Len(toks) : j % 2 = 0}}

\* All operators of one precedence level, at least two of them.
IsSameLevelChain(toks) ==
    /\ IsParenFree(toks)
    /\ Len(toks) >= 5
    /\ OpTypes(toks) \subseteq {"Add", "Sub"} \/ OpTypes(toks) \subseteq {"Mul", "Div"}

\* The tree that groups operand (op operand)* to the left.
RECURSIVE LeftTree(_)
LeftTree(toks) ==
    IF Len(toks) = 1 THEN OperandNode(toks[1])
    ELSE [node |-> "BinaryExpr", op |-> toks[Len(toks) - 1].ttype,
          l |-> LeftTree(SubSeq(toks, 1, Len(toks) - 2)),
          r |-> OperandNode(toks[Len(toks)])]

\* C1: a chain of at least two operators of one precedence level parses to
\* the tree that groups to the left: the root's right child is the last
\* operand, its left child the tree of everything before the last
\* operator; 1 - 2 - 3 renders as "((1 - 2) - 3)".
C1_LeftAssociative ==
    (Parsed /\ IsSameLevelChain(tokens)) =>
        /\ result.tag = "Ok"
        /\ result.node = LeftTree(tokens)
        /\ tokens = <<IntTok(1), Op("Sub"), IntTok(2), Op("Sub"), IntTok(3)>>
              => Str(repr(result.node)) = "((1 - 2) - 3)"

RECURSIVE Subtrees(_)
Subtrees(nd) ==
    IF nd.node = "BinaryExpr" THEN {nd} \cup Subtrees(nd.l) \cup Subtrees(nd.r)
    ELSE IF nd.node = "AssignmentStmt" THEN {nd} \cup Subtrees(nd.expr)
    ELSE {nd}

\* The leaves of a tree, left to right.
RECURSIVE Leaves(_)
Leaves(nd) ==
    IF nd.node = "BinaryExpr" THEN Leaves(nd.l) \o Leaves(nd.r)
    ELSE IF nd.node = "AssignmentStmt" THEN <<nd.identifier>> \o Leaves(nd.expr)
    ELSE IF IsNone(nd) THEN <<>>
    ELSE <<nd>>

IsMulDivNode(nd) == nd.node = "BinaryExpr" /\ nd.op \in {"Mul", "Div"}
IsAddSubNode(nd) == nd.node = "BinaryExpr" /\ nd.op \in {"Add", "Sub"}

NoAddSubUnderMulDiv(root) ==
    \A nd \in Subtrees(root) :
        IsMulDivNode(nd) => ~IsAddSubNode(nd.l) /\ ~IsAddSubNode(nd.r)

\* Positions i..j of a parenthesis-free expression are a maximal run of
\* operands joined by * and /.
IsMaximalMulDivRun(toks, i, j) ==
    /\ i % 2 = 1 /\ j % 2 = 1 /\ i <= j
    /\ \A k \in i..j : k % 2 = 0 => toks[k].ttype \in {"Mul", "Div"}
    /\ i > 1 => toks[i - 1].ttype \in {"Add", "Sub"}
    /\ j < Len(toks) => toks[j + 1].ttype \in {"Add", "Sub"}

OperandNodes(toks) ==
    LET idx == {i \in 1..Len(toks) : IsOperandType(toks[i].ttype)}
        nth[k \in 0..Cardinality(idx)] ==
            IF k = 0 THEN 0 ELSE CHOOSE i \in idx : i > nth[k - 1] /\
                                    \A j \in idx : j > nth[k - 1] => i <= j
    IN  [k \in 1..Cardinality(idx) |-> OperandNode(toks[nth[k]])]

\* C2: in the tree of a parenthesis-free expression no Mul/Div node has an
\* Add/Sub node as a child; every maximal run of operands joined by * or /
\* is the leaves of one subtree made of Mul/Div nodes only; the leaves of
\* the tree are the operands in source order; 1 + 2 * 3 renders as
\* "(1 + (2 * 3))" and 2 * 3 + 4 as "((2 * 3) + 4)".
C2_MulDivBindTighter ==
    (Parsed /\ IsParenFree(tokens)) =>
        /\ result.tag = "Ok"
        /\ NoAddSubUnderMulDiv(result.node)
        /\ Leaves(result.node) = OperandNodes(tokens)
        /\ \A i, j \in 1..Len(tokens) :
              IsMaximalMulDivRun(tokens, i, j) =>
                 \E nd \in Subtrees(result.node) :
                    /\ Leaves(nd) = OperandNodes(SubSeq(tokens, i, j))
                    /\ \A sub \in Subtrees(nd) : ~IsAddSubNode(sub)
        /\ tokens = <<IntTok(1), Op("Add"), IntTok(2), Op("Mul"), IntTok(3)>>
              => Str(repr(result.node)) = "(1 + (2 * 3))"
        /\ tokens = <<IntTok(2), Op("Mul"), IntTok(3), Op("Add"), IntTok(4)>>
              => Str(repr(result.node)) = "((2 * 3) + 4)"

\* C2 witness: an expression of four operators that mixes both levels, with
\* a * or / directly before and directly after a + or -, has been parsed.
C2_Witness ==
    /\ Parsed
    /\ IsParenFree(tokens)
    /\ Len(tokens) >= 7
    /\ result.tag = "Ok"
    /\ \E i \in 2..(Len(tokens) - 3) :
          /\ tokens[i].ttype \in {"Mul", "Div"}
          /\ tokens[i + 2].ttype \in {"Add", "Sub"}
    /\ \E i \in 2..(Len(tokens) - 3) :
          /\ tokens[i].ttype \in {"Add", "Sub"}
          /\ tokens[i + 2].ttype \in {"Mul", "Div"}

\* Nesting depth after the first k tokens.
Depth(toks, k) ==
    Cardinality({i \in 1..k : toks[i].ttype = "LParen"})
    - Cardinality({i \in 1..k : toks[i].ttype = "RParen"})

\* tokens[i] opens the group that tokens[j] closes.
Matches(toks, i, j) ==
    /\ i < j
    /\ toks[i].ttype = "LParen"
    /\ toks[j].ttype = "RParen"
    /\ Depth(toks, j) = Depth(toks, i) - 1
    /\ \A k \in (i + 1)..(j - 1) : Depth(toks, k) >= Depth(toks, i)

GroupTok == Tok("Identifier", <<"g">>)

\* The tree nd with the leaf of the token GroupTok replaced by the tree sub.
RECURSIVE Subst(_, _)
Subst(nd, sub) ==
    IF nd.node = "BinaryExpr"
    THEN [nd EXCEPT !.l = Subst(nd.l, sub), !.r = Subst(nd.r, sub)]
    ELSE IF nd = Identifier_new(GroupTok) THEN sub
    ELSE nd

\* A well-formed arithmetic expression over integers, identifiers, + - * /
\* and balanced parentheses: it starts with an operand or "(", ends with an
\* operand or ")", an operand or ")" is followed by an operator or ")", an
\* operator or "(" by an operand or "(", and the parentheses balance.
IsWellFormedExpr(toks) ==
    LET opens(i) == IsOperandTok(toks[i]) \/ toks[i].ttype = "LParen"
        closes(i) == IsOperandTok(toks[i]) \/ toks[i].ttype = "RParen"
    IN  /\ toks # <<>>
        /\ \A i \in 1..Len(toks) :
              IsOperandTok(toks[i]) \/ toks[i].ttype \in ArithOps \cup {"LParen", "RParen"}
        /\ opens(1)
        /\ closes(Len(toks))
        /\ \A i \in 1..(Len(toks) - 1) : closes(i) <=> ~opens(i + 1)
        /\ \A i \in 1..Len(toks) : Depth(toks, i) >= 0
        /\ Depth(toks, Len(toks)) = 0

\* C3: a parenthesised group is exactly one operand: the tree of the whole
\* expression is the tree of the expression with the group replaced by a
\* single operand, with the tree of the group's inside in that operand's
\* place; (1 + 2) * 3 renders as "((1 + 2) * 3)" and 2 * (1 + 2) + 3 as
\* "((2 * (1 + 2)) + 3)".
C3_GroupIsOneOperand ==
    (Parsed /\ IsWellFormedExpr(tokens)) =>
        /\ result.tag = "Ok"
        /\ \A i, j \in 1..Len(tokens) :
              Matches(tokens, i, j) =>
                 LET inside == ParseOf(SubSeq(tokens, i + 1, j - 1))
                     around == ParseOf(SubSeq(tokens, 1, i - 1) \o <<GroupTok>>
                                       \o SubSeq(tokens, j + 1, Len(tokens)))
                 IN  /\ inside.tag = "Ok"
                     /\ around.tag = "Ok"
                     /\ result.node = Subst(around.node, inside.node)
        /\ tokens = <<Op("LParen"), IntTok(1), Op("Add"), IntTok(2), Op("RParen"),
                      Op("Mul"), IntTok(3)>>
              => Str(repr(result.node)) = "((1 + 2) * 3)"
        /\ tokens = <<IntTok(2), Op("Mul"), Op("LParen"), IntTok(1), Op("Add"), IntTok(2),
                      Op("RParen"), Op("Add"), IntTok(3)>>
              => Str(repr(result.node)) = "((2 * (1 + 2)) + 3)"

\* The token vector ends where an operand is still required.
IsTruncated(toks) ==
    \/ toks = <<>>
    \/ toks[Len(toks)].ttype \in ArithOps \cup {"LParen"}

\* C4: on a truncated token vector parse returns Err(ReachedEnd): it
\* returns no tree and reads no token at an index >= n_tokens (such a read
\* panics).
C4_TruncatedIsReachedEnd ==
    (Parsed /\ IsTruncated(tokens)) => (result.tag = "Err" /\ result.err = "ReachedEnd")

\* C5: an identifier, the assignment marker and a well-formed expression E
\* parse to the AssignmentStmt of that identifier and of the tree that
\* parse(Lowest) gives for E alone, rendered "<id> = <repr of E>";
\* x = 1 + 2 renders as "x = (1 + 2)".
C5_Assignment ==
    (/\ Parsed
     /\ Len(tokens) >= 3
     /\ tokens[1].ttype = "Identifier"
     /\ tokens[2].ttype = "Assignment"
     /\ IsWellFormedExpr(SubSeq(tokens, 3, Len(tokens)))) =>
        LET E == ParseOf(SubSeq(tokens, 3, Len(tokens)))
        IN  /\ E.tag = "Ok"
            /\ result.tag = "Ok"
            /\ result.node = AssignmentStmt_new(Identifier_new(tokens[1]), E.node)
            /\ repr(result.node) = tokens[1].literal \o <<" ", "=", " ">> \o repr(E.node)
            /\ r = n_tokens
            /\ tokens = <<Tok("Identifier", <<"x">>), Op("Assignment"), IntTok(1),
                          Op("Add"), IntTok(2)>>
                  => Str(repr(result.node)) = "x = (1 + 2)"

\* C5 witness: an assignment whose right-hand side has operators and a
\* parenthesised group has been parsed to an AssignmentStmt.
C5_Witness ==
    /\ Parsed
    /\ Len(tokens) >= 9
    /\ tokens[1].ttype = "Identifier"
    /\ tokens[2].ttype = "Assignment"
    /\ IsWellFormedExpr(SubSeq(tokens, 3, Len(tokens)))
    /\ \E i \in 3..Len(tokens) : tokens[i].ttype = "LParen"
    /\ result.tag = "Ok"
    /\ result.node.node = "AssignmentStmt"
    /\ result.node.expr.node = "BinaryExpr"

(***************************************************************************)
(* Both machines in one specification.                                     *)
(***************************************************************************)
Init == LexerInit \/ ParserInit

Next == LexerNext \/ Parse

Spec == Init /\ [][Next]_vars

====
